---- MODULE Spec2Model ----
(***************************************************************************)
(* Model of the competition simulator: Participant.add_points, the         *)
(* ChallengeSimulator resolvers, Stage.run_challenge_1/2/3 and the         *)
(* Competition orchestration (determine_teams, simulate_stage,             *)
(* run_simulation, the evaluation methods and the final report), and the   *)
(* parameter sweep of run_sweep.py (run_optimization_sweep,                *)
(* run_parameter_test, save_sweep_results).                                *)
(*                                                                         *)
(* Participant objects are records; a reference to a Participant is its    *)
(* position in the roster list `participants` (ids are position numbers,   *)
(* utils.generate_fresh_participants gives id i+1 to the i-th entry).      *)
(* Points and skills are integer valued (the floats of the program hold    *)
(* integers exactly).  random.uniform(0, m) is discretised to the draws    *)
(* k*m/DrawSteps, k in 0..DrawSteps, and a randomness weight is the        *)
(* rational num/den, so a resolver score is compared after scaling by      *)
(* den*DrawSteps.                                                          *)
(***************************************************************************)
EXTENDS Integers, Sequences, FiniteSets, TLC

VARIABLES
    participants,        \* Competition.participants: the live roster
    point_config,        \* Competition.point_config / Stage.point_values
    challenge_randomness,      \* ChallengeSimulator.challenge_randomness
    rep_selection_randomness,  \* ChallengeSimulator.rep_selection_randomness
    stage_number,        \* loop variable of run_simulation
    pc,                  \* position inside run_simulation / simulate_stage
    teams,               \* local `teams` of simulate_stage (lists of references)
    winning_team_1,      \* index of the team returned by run_challenge_1 (0: none yet)
    winning_team_2,      \* index of the team returned by run_challenge_2 (0: none yet)
    all_reps,            \* representatives returned by run_challenge_3
    winner_rep,          \* winning representative returned by run_challenge_3 (0: none yet)
    stage_5_leaderboard, \* Competition.stage_5_leaderboard (None or list of copies)
    report,              \* metrics logged by generate_final_report (None before)
    before,              \* history: roster as it was before the last challenge ran
    stages_run,          \* history: stage numbers passed to simulate_stage, in order
    p_total,             \* a stand-alone Participant's total_points
    p_log,               \* history: the arguments of its add_points calls, in order
    num_runs,            \* parameter num_runs of the sweep (0: no sweep is running)
    combo,               \* number of (C, Z, X, Y) combinations the sweep's loops have passed
    params,              \* X, Y, Z, C of the run_parameter_test call in progress
    i_run,               \* loop variable i of run_parameter_test (0 before the loop)
    agg,                 \* the aggregator variables of run_parameter_test
    all_test_results,    \* run_optimization_sweep's list of result records
    final_leaderboard,   \* rows written by save_sweep_results (None before)
    competition_counter, \* the global competition_counter of competition_logic
    run_metrics,         \* history: what each run of the current tuple reported
    run_trace,           \* history: teams, winners and roster at the end of each stage of this run
    prev_trace           \* history: run_trace of the previous run of the same tuple

compVars == <<participants, point_config, challenge_randomness,
              rep_selection_randomness, stage_number, pc, teams,
              winning_team_1, winning_team_2, all_reps, winner_rep,
              stage_5_leaderboard, report, before, stages_run>>
compVars_but_pc == <<participants, point_config, challenge_randomness,
                     rep_selection_randomness, stage_number, teams,
                     winning_team_1, winning_team_2, all_reps, winner_rep,
                     stage_5_leaderboard, report, before, stages_run>>
addVars == <<p_total, p_log>>
sweepCtl == <<num_runs, combo, params, i_run, agg, all_test_results,
              final_leaderboard, competition_counter, run_metrics, prev_trace>>
sweepVars == <<sweepCtl, run_trace>>
vars == <<participants, point_config, challenge_randomness,
          rep_selection_randomness, stage_number, pc, teams,
          winning_team_1, winning_team_2, all_reps, winner_rep,
          stage_5_leaderboard, report, before, stages_run, p_total, p_log,
          sweepVars>>

\* An optional value (None or a value v) is the sequence <<>> or <<v>>
None == <<>>
Some(v) == <<v>>
Val(o) == o[1]

----------------------------------------------------------------------------
(* Bounds of the model *)

\* number of steps into which a uniform draw over [0, max] is discretised
DrawSteps == 1
\* largest magnitude of an adjustment given to the stand-alone Participant
MaxDelta == 2
\* number of add_points calls made on the stand-alone Participant
MaxAdjust == 4
\* largest top_N evaluate_stability is asked about
MaxTopN == 3
\* largest target_M evaluate_stability is asked about
MaxTargetM == 6
\* largest initial_skill of the participants handed to the resolvers alone
MaxSkill == 3
\* largest num_runs a sweep is started with
MaxRuns == 2

----------------------------------------------------------------------------
(* Inputs *)

\* initial skills of utils.PARTICIPANT_DATA, in roster order
PARTICIPANT_DATA == <<100, 90, 80, 70, 60, 50, 40, 30, 20, 10, 5, 1>>

\* roster sizes a Competition is built with (prefixes of PARTICIPANT_DATA)
RosterSizes == {3, 6, 12}

\* point configurations X, Y, Z, C (inside the bounds of config.py, Z < X < Y)
PointConfigs == {[X |-> 2, Y |-> 3, Z |-> 1, C |-> 1],
                 [X |-> 3, Y |-> 4, Z |-> 2, C |-> 3]}


\* randomness weights (challenge_rand, rep_rand) as rationals num/den
RandConfigs ==
    { <<[num |-> 0, den |-> 1], [num |-> 0, den |-> 1]>>,
      <<[num |-> 1, den |-> 10], [num |-> 1, den |-> 10]>> }

\* the (roster size, point configuration, randomness weights) a Competition
\* is built with; the 6-roster, whose close skills give by far the most
\* outcomes, is run without randomness
CompetitionInputs ==
    {in \in RosterSizes \X PointConfigs \X RandConfigs :
        in[1] = 6 => (in[2].C <= in[2].Z /\ in[3][1].num = 0)}

Draws == 0..DrawSteps

num_stages == 6

----------------------------------------------------------------------------
(* Participant *)

\* Participant.__init__ giving the new participant a point
Participant_StartsWithPoint(id, initial_skill) ==
    [id |-> id, initial_skill |-> initial_skill, total_points |-> 1]

\* Participant.__init__
Participant(id, initial_skill) ==
    [id |-> id, initial_skill |-> initial_skill, total_points |-> 0]

\* add_points without its floor
AddPoints_NoFloor(total_points, points) == total_points + points

\* Participant.add_points: add, then floor at zero
add_points(total_points, points) ==
    LET t == total_points + points
    IN  IF t < 0 THEN 0 ELSE t

\* utils.generate_fresh_participants, for a roster of n entries
generate_fresh_participants(n) ==
    [i \in 1..n |-> Participant(i, PARTICIPANT_DATA[i])]

----------------------------------------------------------------------------
(* Helpers standing for Python built-ins *)

RECURSIVE SumSeq(_)
SumSeq(s) == IF s = <<>> THEN 0 ELSE Head(s) + SumSeq(Tail(s))

\* max(...) over a non-empty sequence of numbers
MaxSeq(s) == CHOOSE m \in {s[i] : i \in DOMAIN s} : \A i \in DOMAIN s : s[i] <= m

\* index of the element max(items, key=...) returns: the first maximal one
FirstMax(scores) ==
    CHOOSE i \in DOMAIN scores :
        /\ \A j \in DOMAIN scores : scores[j] <= scores[i]
        /\ \A j \in DOMAIN scores : j < i => scores[j] < scores[i]

\* a descending sort that puts the later of two equal elements first
SortedPos_TiesReversed(keys, i) ==
    Cardinality({j \in DOMAIN keys :
                    keys[j] > keys[i] \/ (keys[j] = keys[i] /\ j > i)})

\* sorted(roster, key=..., reverse=True): stable, descending.
\* Position (0-based) that element i takes: the elements with a larger key,
\* and the earlier elements with the same key, come before it.
SortedPos(keys, i) ==
    Cardinality({j \in DOMAIN keys :
                    keys[j] > keys[i] \/ (keys[j] = keys[i] /\ j < i)})

SortedDesc(keys) ==
    [k \in 1..Len(keys) |->
        CHOOSE i \in DOMAIN keys : SortedPos(keys, i) = k - 1]

----------------------------------------------------------------------------
(* ChallengeSimulator *)

\* the score with the random component at full weight whatever r is
WeightedScore_FullDraw(r, skill, draw, max_ref) ==
    (r.den - r.num) * skill * DrawSteps + r.den * draw * max_ref

\* (1 - r) * skill + r * random_component, scaled by r.den * DrawSteps
WeightedScore(r, skill, draw, max_ref) ==
    (r.den - r.num) * skill * DrawSteps + r.num * draw * max_ref

TeamSkillSum(parts, team) ==
    SumSeq([k \in 1..Len(team) |-> parts[team[k]].initial_skill])

\* determine_team_winner: index of the winning team
determine_team_winner(parts, tms, r, draws) ==
    LET sums == [t \in 1..Len(tms) |-> TeamSkillSum(parts, tms[t])]
        max_skill_sum == MaxSeq(sums)
        team_scores == [t \in 1..Len(tms) |->
                           WeightedScore(r, sums[t], draws[t], max_skill_sum)]
    IN  FirstMax(team_scores)

\* determine_individual_winner: the winning representative
determine_individual_winner(parts, representatives, r, draws) ==
    LET skills == [k \in 1..Len(representatives) |->
                      parts[representatives[k]].initial_skill]
        max_skill == MaxSeq(skills)
        individual_scores == [k \in 1..Len(representatives) |->
                                 WeightedScore(r, skills[k], draws[k], max_skill)]
    IN  representatives[FirstMax(individual_scores)]

\* select_team_representative: the chosen member of one team
select_team_representative(parts, team, r, draws) ==
    LET skills == [k \in 1..Len(team) |-> parts[team[k]].initial_skill]
        max_skill == MaxSeq(skills)
        selection_scores == [k \in 1..Len(team) |->
                                WeightedScore(r, skills[k], draws[k], max_skill)]
    IN  team[FirstMax(selection_scores)]

\* the teams determine_team_winner can return over all draws
TeamWinners(parts, tms, r) ==
    { determine_team_winner(parts, tms, r, d) :
        d \in [1..Len(tms) -> Draws] }

\* the representatives determine_individual_winner can return over all draws
RepWinners(parts, representatives, r) ==
    { determine_individual_winner(parts, representatives, r, d) :
        d \in [1..Len(representatives) -> Draws] }

\* the members select_team_representative can return over all draws
RepChoices(parts, team, r) ==
    { select_team_representative(parts, team, r, d) :
        d \in [1..Len(team) -> Draws] }

----------------------------------------------------------------------------
(* Stage *)

\* `x in team` for a list of references
InSeq(x, s) == \E k \in DOMAIN s : s[k] = x

\* for participant in team: participant.add_points(points)
AwardTeam(parts, team, points) ==
    [i \in DOMAIN parts |->
        IF InSeq(i, team)
        THEN [parts[i] EXCEPT !.total_points = add_points(@, points)]
        ELSE parts[i]]

\* run_challenge_1 awarding every team
run_challenge_1_AllTeams(parts, tms, w, X) ==
    [i \in DOMAIN parts |->
        [parts[i] EXCEPT !.total_points = add_points(@, X)]]

\* run_challenge_1, given the index w of the team the simulator returned
run_challenge_1(parts, tms, w, X) == AwardTeam(parts, tms[w], X)

\* run_challenge_2, given the index w of the team the simulator returned
run_challenge_2(parts, tms, w, Y) == AwardTeam(parts, tms[w], Y)

\* next((team for team in teams if winner_rep in team), []): index of the
\* first team that holds the winning representative (0 stands for [])
WinnerTeamIndex(tms, wrep) ==
    IF \E t \in DOMAIN tms : InSeq(wrep, tms[t])
    THEN CHOOSE t \in DOMAIN tms :
            /\ InSeq(wrep, tms[t])
            /\ \A u \in DOMAIN tms : u < t => ~InSeq(wrep, tms[u])
    ELSE 0

\* run_challenge_3 without the test `rep != winner_rep` on the penalty
run_challenge_3_PenalizeAll(parts, tms, reps, wrep, Z, C) ==
    LET wt == WinnerTeamIndex(tms, wrep)
        afterZ == IF wt # 0 THEN AwardTeam(parts, tms[wt], Z) ELSE parts
        afterC == IF wt # 0
                  THEN [afterZ EXCEPT
                          ![wrep].total_points = add_points(@, C)]
                  ELSE afterZ
    IN  [i \in DOMAIN afterC |->
            IF InSeq(i, reps)
            THEN [afterC[i] EXCEPT !.total_points = add_points(@, 0 - C)]
            ELSE afterC[i]]

\* point distribution of run_challenge_3, given the representatives and the
\* winning representative the simulator returned
run_challenge_3(parts, tms, reps, wrep, Z, C) ==
    LET wt == WinnerTeamIndex(tms, wrep)
        \* 1. team points (Z)
        afterZ == IF wt # 0 THEN AwardTeam(parts, tms[wt], Z) ELSE parts
        \* 2. individual winner bonus (C)
        afterC == IF wt # 0
                  THEN [afterZ EXCEPT
                          ![wrep].total_points = add_points(@, C)]
                  ELSE afterZ
        \* 3. individual losers penalty (-C)
    IN  [i \in DOMAIN afterC |->
            IF InSeq(i, reps) /\ i # wrep
            THEN [afterC[i] EXCEPT !.total_points = add_points(@, 0 - C)]
            ELSE afterC[i]]

----------------------------------------------------------------------------
(* Competition *)

\* Competition.__init__: max_stage_points = Y + Z + C
max_stage_points == point_config.Y + point_config.Z + point_config.C

\* get_initial_leaderboard: references sorted by initial skill, descending
get_initial_leaderboard(parts) ==
    SortedDesc([i \in DOMAIN parts |-> parts[i].initial_skill])

\* get_final_leaderboard: references sorted by total points, descending
get_final_leaderboard(parts) ==
    SortedDesc([i \in DOMAIN parts |-> parts[i].total_points])

\* the draft mirroring the row index instead of the index in the row
TeamIndex_RowMixup(i) ==
    IF (i \div 3) % 2 = 1 THEN 2 - (i \div 3) ELSE i % 3

\* the draft without the reversal of every other row
TeamIndex_NoMirror(i) == i % 3

\* snake draft: team index (0-based) of ranked position i (0-based)
TeamIndex(i) ==
    IF (i \div 3) % 2 = 1 THEN 2 - (i % 3) ELSE i % 3

\* determine_teams drafting from the skill ranking at every stage
determine_teams_SkillOnly(parts, stage) ==
    LET sorted_participants == get_initial_leaderboard(parts)
        Picks(t) == SelectSeq([k \in 1..Len(sorted_participants) |-> k],
                              LAMBDA k : TeamIndex(k - 1) = t)
    IN  [t \in 1..3 |->
            [j \in 1..Len(Picks(t - 1)) |->
                sorted_participants[Picks(t - 1)[j]]]]

\* determine_teams: three lists of references
determine_teams(parts, stage) ==
    LET sorted_participants ==
            IF stage = 1 THEN get_initial_leaderboard(parts)
                         ELSE get_final_leaderboard(parts)
        Picks(t) == SelectSeq([k \in 1..Len(sorted_participants) |-> k],
                              LAMBDA k : TeamIndex(k - 1) = t)
    IN  [t \in 1..3 |->
            [j \in 1..Len(Picks(t - 1)) |->
                sorted_participants[Picks(t - 1)[j]]]]

\* the stage-5 copy without the loop that copies the points (lines 104-105)
Stage5Copy_NoPoints(parts) ==
    [i \in DOMAIN parts |-> Participant(parts[i].id, parts[i].initial_skill)]

\* the stage-5 copy made at the end of simulate_stage(5)
Stage5Copy(parts) ==
    LET leaderboard == get_final_leaderboard(parts)
        current_leaderboard_points(id) ==
            parts[leaderboard[CHOOSE k \in DOMAIN leaderboard :
                      parts[leaderboard[k]].id = id]].total_points
    IN  [i \in DOMAIN parts |->
            [Participant(parts[i].id, parts[i].initial_skill)
                EXCEPT !.total_points = current_leaderboard_points(parts[i].id)]]

\* a snapshot taken at the end of the last stage instead
TakesSnapshot_LastStage(stage) == stage = 6

\* simulate_stage: `if stage_number == 5`, the stage whose end is captured
TakesSnapshot(stage) == stage = 5

\* a loop stepping over every other stage
NextStageNumber_Skip(s) == s + 2

\* loop of run_simulation: the stage after stage s
NextStageNumber(s) == s + 1

\* stage_5_score_map.get(id, 0) over a stage-5 list
Stage5Score(leaderboard, id) ==
    IF \E k \in DOMAIN leaderboard : leaderboard[k].id = id
    THEN leaderboard[CHOOSE k \in DOMAIN leaderboard :
                        leaderboard[k].id = id].total_points
    ELSE 0

\* evaluate_final_contenders, lines 166-183: the participants for which the
\* loop increments contender_count
Contenders(leaderboard, parts, max_points) ==
    LET score_6th == leaderboard[6].total_points
    IN  {i \in DOMAIN parts :
            Stage5Score(leaderboard, parts[i].id) + max_points >= score_6th}

\* evaluate_final_contenders answering with the roster size when there is
\* no usable stage-5 list
evaluate_final_contenders_AllWhenMissing(snapshot, parts, max_points) ==
    IF snapshot = None \/ Len(Val(snapshot)) < 6
    THEN Len(parts)
    ELSE Cardinality(Contenders(Val(snapshot), parts, max_points))

\* evaluate_final_contenders
evaluate_final_contenders(snapshot, parts, max_points) ==
    IF snapshot = None \/ Len(Val(snapshot)) < 6
    THEN 0
    ELSE Cardinality(Contenders(Val(snapshot), parts, max_points))

\* Python slice s[:stop]
PySliceTo(s, stop) ==
    LET n == Len(s)
        e == IF stop < 0 THEN (IF n + stop < 0 THEN 0 ELSE n + stop)
             ELSE (IF stop > n THEN n ELSE stop)
    IN  SubSeq(s, 1, e)

\* Python slice s[start:]
PySliceFrom(s, start) ==
    LET n == Len(s)
        b == IF start < 0 THEN (IF n + start < 0 THEN 0 ELSE n + start)
             ELSE (IF start > n THEN n ELSE start)
    IN  SubSeq(s, b + 1, n)

\* evaluate_stability counting only the top band
StabilityOf_TopOnly(initial_board, final_board, top_N, target_M) ==
    LET initial_top_N == PySliceTo(initial_board, top_N)
        final_top_M == {final_board[k] : k \in DOMAIN PySliceTo(final_board, target_M)}
        top_count == Cardinality({k \in DOMAIN initial_top_N :
                                    initial_top_N[k] \in final_top_M})
    IN  [stability_score |-> [num |-> top_count, den |-> 2 * top_N],
         successful_players |-> top_count]

\* evaluate_stability, lines 121-135, on the two leaderboards
StabilityOf(initial_board, final_board, top_N, target_M) ==
    LET num_participants == Len(initial_board)
        initial_top_N == PySliceTo(initial_board, top_N)
        initial_bottom_N == PySliceFrom(initial_board, num_participants - top_N)
        final_top_M == {final_board[k] : k \in DOMAIN PySliceTo(final_board, target_M)}
        top_count == Cardinality({k \in DOMAIN initial_top_N :
                                    initial_top_N[k] \in final_top_M})
        bottom_slice == PySliceFrom(final_board, num_participants - target_M)
        final_bottom_M == {bottom_slice[k] : k \in DOMAIN bottom_slice}
        bottom_count == Cardinality({k \in DOMAIN initial_bottom_N :
                                       initial_bottom_N[k] \in final_bottom_M})
        successful_players == top_count + bottom_count
        total_possible == 2 * top_N
    IN  [stability_score |-> [num |-> successful_players, den |-> total_possible],
         successful_players |-> successful_players]

\* evaluate_stability: (stability_score, successful_players), the score as
\* the fraction num/den
evaluate_stability(parts, top_N, target_M) ==
    StabilityOf(get_initial_leaderboard(parts), get_final_leaderboard(parts),
                top_N, target_M)

\* evaluate_cut_off_collision with `>=` in place of `>`
evaluate_cut_off_collision_NoTie(parts) ==
    LET final_board == get_final_leaderboard(parts)
    IN  IF Len(final_board) < 7 THEN 0
        ELSE IF parts[final_board[6]].total_points
                  >= parts[final_board[7]].total_points THEN 0
        ELSE Cardinality({i \in DOMAIN parts :
                parts[i].total_points = parts[final_board[6]].total_points})

\* evaluate_cut_off_collision
evaluate_cut_off_collision(parts) ==
    LET final_board == get_final_leaderboard(parts)
        num_participants == Len(final_board)
    IN  IF num_participants < 7 THEN 0
        ELSE LET score_6th == parts[final_board[6]].total_points
                 score_7th == parts[final_board[7]].total_points
             IN  IF score_6th > score_7th THEN 0
                 ELSE Cardinality({i \in DOMAIN parts :
                         parts[i].total_points = score_6th})

\* the metrics generate_final_report computes (N = 3, M = 6) and logs
FinalMetrics(snapshot, parts, max_points) ==
    LET st == evaluate_stability(parts, 3, 6)
    IN  [stability_score |-> st.stability_score,
         successful_players |-> st.successful_players,
         collision_size |-> evaluate_cut_off_collision(parts),
         contender_count |-> evaluate_final_contenders(snapshot, parts, max_points)]

----------------------------------------------------------------------------
(* run_sweep: fractions, the aggregator and the result record *)

\* a float that holds a quotient of integers is the fraction num/den, den > 0
Frac(n) == [num |-> n, den |-> 1]

AddFrac(a, b) == [num |-> a.num * b.den + b.num * a.den, den |-> a.den * b.den]

SubFrac(a, b) == [num |-> a.num * b.den - b.num * a.den, den |-> a.den * b.den]

FracEq(a, b) == a.num * b.den = b.num * a.den

FracLess(a, b) == a.num * b.den < b.num * a.den

\* sorted(items, key=..., reverse=True) for keys that are fractions: the
\* index of the item at each place of the stable descending order
SortedDescFrac(keys) ==
    [k \in 1..Len(keys) |->
        CHOOSE i \in DOMAIN keys :
            Cardinality({j \in DOMAIN keys :
                FracLess(keys[i], keys[j])
                   \/ (FracEq(keys[i], keys[j]) /\ j < i)}) = k - 1]

\* run_parameter_test, lines 72-76: the aggregator variables at entry
EmptyAggregator ==
    [total_stability_score |-> Frac(0),
     total_collision_size |-> 0,
     total_contender_count |-> 0,
     total_successful_players |-> 0,
     avg_score_tracker |-> [i \in DOMAIN PARTICIPANT_DATA |-> 0]]

\* config.py: the inclusive bounds of the sweep
X_LOWER == 2
X_HIGHER == 5
Y_LOWER == 3
Y_HIGHER == 7
Z_LOWER == 1
Z_HIGHER == 5
C_LOWER == 1
C_HIGHER == 3

\* challenge_rand and rep_rand the sweep is called with: the sweep is
\* modelled without randomness
SweepRand == [num |-> 0, den |-> 1]

\* len(range(lo, hi + 1))
RangeLen(lo, hi) == IF hi + 1 > lo THEN hi + 1 - lo ELSE 0

\* number of (C, Z, X, Y) the four nested loops of run_optimization_sweep
\* range over
NumCombinations ==
    RangeLen(C_LOWER, C_HIGHER) * RangeLen(Z_LOWER, Z_HIGHER)
       * RangeLen(X_LOWER, X_HIGHER) * RangeLen(Y_LOWER, Y_HIGHER)

\* the k-th (from 0) combination in the order of the loops: C outermost,
\* then Z, then X, then Y
Combination(k) ==
    LET nZ == RangeLen(Z_LOWER, Z_HIGHER)
        nX == RangeLen(X_LOWER, X_HIGHER)
        nY == RangeLen(Y_LOWER, Y_HIGHER)
    IN  [C |-> C_LOWER + (k \div (nZ * nX * nY)),
         Z |-> Z_LOWER + ((k \div (nX * nY)) % nZ),
         X |-> X_LOWER + ((k \div nY) % nX),
         Y |-> Y_LOWER + (k % nY)]

\* the loops' filter with `if C >= Z: continue` in force
ValidCombination_StrictC(t) ==
    ~(t.C >= t.Z) /\ ~(t.Z >= t.X) /\ ~(t.X >= t.Y)

\* run_optimization_sweep, lines 235-244: no `continue` is taken
ValidCombination(t) == ~(t.Z >= t.X) /\ ~(t.X >= t.Y)

\* run_parameter_test, lines 96-106: one finished competition is added
Aggregate(a, parts, snapshot, max_points) ==
    LET st == evaluate_stability(parts, 3, 6)
        final_board == get_final_leaderboard(parts)
    IN  [total_stability_score |->
             AddFrac(a.total_stability_score, st.stability_score),
         total_successful_players |->
             a.total_successful_players + st.successful_players,
         total_collision_size |->
             a.total_collision_size + evaluate_cut_off_collision(parts),
         total_contender_count |->
             a.total_contender_count
                + evaluate_final_contenders(snapshot, parts, max_points),
         avg_score_tracker |->
             [i \in DOMAIN a.avg_score_tracker |->
                 IF InSeq(i, final_board)
                 THEN a.avg_score_tracker[i] + parts[i].total_points
                 ELSE a.avg_score_tracker[i]]]

\* total / num_runs_f with one run too many in the divisor
Average_ExtraRun(total, runs) == [num |-> total, den |-> runs + 1]

\* total / num_runs_f
Average(total, runs) == [num |-> total, den |-> runs]

\* the name competition_counter of run_sweep.py: `from utils import` binds
\* it to the value utils.competition_counter has at import, and run_sweep
\* never assigns it
sweep_competition_counter == 0

\* run_parameter_test, lines 108-143: the result record
ParameterTestResult(p, a, runs) ==
    LET avg_stability ==
            [num |-> a.total_stability_score.num,
             den |-> a.total_stability_score.den * runs]
        avg_successful_players == Average(a.total_successful_players, runs)
        avg_collision == Average(a.total_collision_size, runs)
        avg_contenders == Average(a.total_contender_count, runs)
        optimization_score ==
            AddFrac(AddFrac(SubFrac(avg_successful_players, Frac(4)),
                            SubFrac(Frac(3), avg_collision)),
                    SubFrac(avg_contenders, Frac(9)))
        avgs == [i \in DOMAIN a.avg_score_tracker |->
                    Average(a.avg_score_tracker[i], runs)]
        order == SortedDescFrac(avgs)
        average_leaderboard ==
            [k \in DOMAIN order |->
                [name |-> order[k], avg_score |-> avgs[order[k]],
                 initial_skill |-> PARTICIPANT_DATA[order[k]]]]
    IN  [params |-> p,
         log_id |-> sweep_competition_counter,
         optimization_score |-> optimization_score,
         avg_stability_score |-> avg_stability,
         avg_successful_players_count |-> avg_successful_players,
         avg_cut_off_collision_size |-> avg_collision,
         avg_contender_count |-> avg_contenders,
         average_leaderboard |-> average_leaderboard]

\* save_sweep_results writing the records in the order they were appended
save_sweep_results_Unsorted(results) ==
    [k \in DOMAIN results |-> [rank |-> k, result |-> results[k]]]

\* save_sweep_results: the rows of the leaderboard files, row k (from 1)
\* being the one written for i = k - 1
save_sweep_results(results) ==
    LET order == SortedDescFrac([k \in DOMAIN results |->
                                    results[k].optimization_score])
    IN  [k \in DOMAIN results |->
            [rank |-> (k - 1) + 1, result |-> results[order[k]]]]

\* the sweep variables while no sweep is running
NoSweep ==
    /\ num_runs = 0
    /\ combo = 0
    /\ params = [X |-> 0, Y |-> 0, Z |-> 0, C |-> 0]
    /\ i_run = 0
    /\ agg = EmptyAggregator
    /\ all_test_results = <<>>
    /\ final_leaderboard = None
    /\ run_metrics = <<>>
    /\ run_trace = <<>>
    /\ prev_trace = <<>>

----------------------------------------------------------------------------
(* One Competition: __init__ followed by run_simulation *)

Init ==
    /\ \E in \in CompetitionInputs :
          /\ participants = generate_fresh_participants(in[1])
          /\ point_config = in[2]
          /\ challenge_randomness = in[3][1]
          /\ rep_selection_randomness = in[3][2]
    /\ stage_number = 1
    /\ pc = "teams"
    /\ teams = <<>>
    /\ winning_team_1 = 0
    /\ winning_team_2 = 0
    /\ all_reps = <<>>
    /\ winner_rep = 0
    /\ stage_5_leaderboard = None
    /\ report = None
    /\ before = participants
    /\ stages_run = <<>>
    /\ p_total = 0
    /\ p_log = <<>>
    /\ NoSweep
    /\ competition_counter = 1

\* what one stage of a run leaves behind, for run_trace
StageRecord ==
    [stage_number |-> stage_number, teams |-> teams,
     winning_team_1 |-> winning_team_1, winning_team_2 |-> winning_team_2,
     all_reps |-> all_reps, winner_rep |-> winner_rep,
     participants |-> participants]

\* simulate_stage, lines 66-71: form the teams of this stage
DetermineTeams ==
    /\ pc = "teams"
    /\ stage_number \in 1..num_stages
    /\ teams' = determine_teams(participants, stage_number)
    /\ stages_run' = Append(stages_run, stage_number)
    /\ before' = participants
    /\ pc' = "ch1"
    /\ UNCHANGED <<participants, point_config, challenge_randomness,
                   rep_selection_randomness, stage_number, winning_team_1,
                   winning_team_2, all_reps, winner_rep,
                   stage_5_leaderboard, report, p_total, p_log>>
    /\ UNCHANGED sweepVars

\* simulate_stage, lines 73-75: Stage.run_challenge_1
RunChallenge1 ==
    /\ pc = "ch1"
    /\ \E w \in TeamWinners(participants, teams, challenge_randomness) :
          /\ participants' =
                run_challenge_1(participants, teams, w, point_config.X)
          /\ winning_team_1' = w
    /\ before' = participants
    /\ pc' = "ch2"
    /\ UNCHANGED <<point_config, challenge_randomness,
                   rep_selection_randomness, stage_number, teams,
                   winning_team_2, all_reps, winner_rep,
                   stage_5_leaderboard, report, stages_run, p_total, p_log>>
    /\ UNCHANGED sweepVars

\* simulate_stage, lines 77-79: Stage.run_challenge_2
RunChallenge2 ==
    /\ pc = "ch2"
    /\ \E w \in TeamWinners(participants, teams, challenge_randomness) :
          /\ participants' =
                run_challenge_2(participants, teams, w, point_config.Y)
          /\ winning_team_2' = w
    /\ before' = participants
    /\ pc' = "ch3"
    /\ UNCHANGED <<point_config, challenge_randomness,
                   rep_selection_randomness, stage_number, teams,
                   winning_team_1, all_reps, winner_rep,
                   stage_5_leaderboard, report, stages_run, p_total, p_log>>
    /\ UNCHANGED sweepVars

\* simulate_stage, lines 81-86: Stage.run_challenge_3
RunChallenge3 ==
    /\ pc = "ch3"
    /\ \E r1 \in RepChoices(participants, teams[1], rep_selection_randomness),
          r2 \in RepChoices(participants, teams[2], rep_selection_randomness),
          r3 \in RepChoices(participants, teams[3], rep_selection_randomness) :
          \E wrep \in RepWinners(participants, <<r1, r2, r3>>,
                                  challenge_randomness) :
             /\ participants' =
                   run_challenge_3(participants, teams, <<r1, r2, r3>>, wrep,
                                   point_config.Z, point_config.C)
             /\ all_reps' = <<r1, r2, r3>>
             /\ winner_rep' = wrep
    /\ before' = participants
    /\ pc' = "board"
    /\ UNCHANGED <<point_config, challenge_randomness,
                   rep_selection_randomness, stage_number, teams,
                   winning_team_1, winning_team_2,
                   stage_5_leaderboard, report, stages_run, p_total, p_log>>
    /\ UNCHANGED sweepVars

\* simulate_stage, lines 88-105 (leaderboard, stage-5 copy), and the step of
\* run_simulation's loop to the next stage or to the report
EndStage ==
    /\ pc = "board"
    /\ stage_5_leaderboard' =
          IF TakesSnapshot(stage_number)
          THEN Some(Stage5Copy(participants))
          ELSE stage_5_leaderboard
    /\ IF NextStageNumber(stage_number) \in 1..num_stages
       THEN /\ stage_number' = NextStageNumber(stage_number)
            /\ pc' = "teams"
       ELSE /\ stage_number' = stage_number
            /\ pc' = "report"
    /\ teams' = <<>>
    /\ winning_team_1' = 0
    /\ winning_team_2' = 0
    /\ all_reps' = <<>>
    /\ winner_rep' = 0
    /\ before' = participants
    /\ run_trace' = IF num_runs > 0
                    THEN Append(run_trace, StageRecord)
                    ELSE run_trace
    /\ UNCHANGED <<participants, point_config, challenge_randomness,
                   rep_selection_randomness, report, stages_run,
                   p_total, p_log, sweepCtl>>

\* a report that sorts the roster in place (self.participants.sort) to
\* print the final leaderboard
GenerateFinalReport_SortsRoster ==
    /\ pc = "report"
    /\ report' = Some(FinalMetrics(stage_5_leaderboard, participants,
                                   max_stage_points))
    /\ participants' =
          [k \in DOMAIN participants |->
              participants[get_final_leaderboard(participants)[k]]]
    /\ pc' = "done"
    /\ UNCHANGED <<point_config, challenge_randomness,
                   rep_selection_randomness, stage_number, teams,
                   winning_team_1, winning_team_2, all_reps, winner_rep,
                   stage_5_leaderboard, before, stages_run, p_total, p_log>>
    /\ UNCHANGED sweepVars

\* generate_final_report: the metrics it logs
GenerateFinalReport ==
    /\ pc = "report"
    /\ report' = Some(FinalMetrics(stage_5_leaderboard, participants,
                                   max_stage_points))
    /\ pc' = "done"
    /\ UNCHANGED <<participants, point_config, challenge_randomness,
                   rep_selection_randomness, stage_number, teams,
                   winning_team_1, winning_team_2, all_reps, winner_rep,
                   stage_5_leaderboard, before, stages_run, p_total, p_log>>
    /\ UNCHANGED sweepVars

Next ==
    \/ DetermineTeams
    \/ RunChallenge1
    \/ RunChallenge2
    \/ RunChallenge3
    \/ EndStage
    \/ GenerateFinalReport

Spec == Init /\ [][Next]_vars

----------------------------------------------------------------------------
(* One Participant receiving a sequence of add_points calls *)

InitAdd ==
    /\ p_total = Participant(1, PARTICIPANT_DATA[1]).total_points
    /\ p_log = <<>>
    /\ participants = <<>>
    /\ point_config = [X |-> 0, Y |-> 0, Z |-> 0, C |-> 0]
    /\ challenge_randomness = [num |-> 0, den |-> 1]
    /\ rep_selection_randomness = [num |-> 0, den |-> 1]
    /\ stage_number = 0
    /\ pc = "none"
    /\ teams = <<>>
    /\ winning_team_1 = 0
    /\ winning_team_2 = 0
    /\ all_reps = <<>>
    /\ winner_rep = 0
    /\ stage_5_leaderboard = None
    /\ report = None
    /\ before = <<>>
    /\ stages_run = <<>>
    /\ NoSweep
    /\ competition_counter = 0

\* participant.add_points(d)
AddPointsStep ==
    /\ Len(p_log) < MaxAdjust
    /\ \E d \in (0 - MaxDelta)..MaxDelta :
          /\ p_total' = add_points(p_total, d)
          /\ p_log' = Append(p_log, d)
    /\ UNCHANGED <<compVars, sweepVars>>

NextAdd == AddPointsStep

SpecAdd == InitAdd /\ [][NextAdd]_vars

----------------------------------------------------------------------------
(* The three resolvers of ChallengeSimulator applied to arbitrary skills *)

\* randomness weights the resolvers are built with: 0 and 1/2
ResolveWeights == {[num |-> 0, den |-> 1], [num |-> 1, den |-> 2]}

\* three teams of two over a roster of six
ResolveTeams == << <<1, 2>>, <<3, 4>>, <<5, 6>> >>

InitResolve ==
    /\ \E skills \in [1..6 -> 1..MaxSkill] :
          participants = [i \in 1..6 |-> Participant(i, skills[i])]
    /\ challenge_randomness \in ResolveWeights
    /\ rep_selection_randomness \in ResolveWeights
    /\ teams = ResolveTeams
    /\ pc = "resolve"
    /\ point_config = [X |-> 0, Y |-> 0, Z |-> 0, C |-> 0]
    /\ stage_number = 0
    /\ winning_team_1 = 0
    /\ winning_team_2 = 0
    /\ all_reps = <<>>
    /\ winner_rep = 0
    /\ stage_5_leaderboard = None
    /\ report = None
    /\ before = participants
    /\ stages_run = <<>>
    /\ p_total = 0
    /\ p_log = <<>>
    /\ NoSweep
    /\ competition_counter = 0

\* simulator.determine_team_winner(teams), over every value of its draws
ResolveTeamWinner ==
    /\ pc = "resolve"
    /\ winning_team_1' \in
          TeamWinners(participants, teams, challenge_randomness)
    /\ pc' = "team"
    /\ UNCHANGED <<participants, point_config, challenge_randomness,
                   rep_selection_randomness, stage_number, teams,
                   winning_team_2, all_reps, winner_rep, stage_5_leaderboard,
                   report, before, stages_run, p_total, p_log, sweepVars>>

\* [simulator.select_team_representative(team) for team in teams], over
\* every value of the draws
ResolveRepresentatives ==
    /\ pc = "team"
    /\ \E r1 \in RepChoices(participants, teams[1], rep_selection_randomness),
          r2 \in RepChoices(participants, teams[2], rep_selection_randomness),
          r3 \in RepChoices(participants, teams[3], rep_selection_randomness) :
          all_reps' = <<r1, r2, r3>>
    /\ pc' = "reps"
    /\ UNCHANGED <<participants, point_config, challenge_randomness,
                   rep_selection_randomness, stage_number, teams,
                   winning_team_1, winning_team_2, winner_rep,
                   stage_5_leaderboard, report, before, stages_run,
                   p_total, p_log, sweepVars>>

\* simulator.determine_individual_winner(all_reps), over every value of its
\* draws
ResolveIndividualWinner ==
    /\ pc = "reps"
    /\ winner_rep' \in
          RepWinners(participants, all_reps, challenge_randomness)
    /\ pc' = "resolved"
    /\ UNCHANGED <<participants, point_config, challenge_randomness,
                   rep_selection_randomness, stage_number, teams,
                   winning_team_1, winning_team_2, all_reps,
                   stage_5_leaderboard, report, before, stages_run,
                   p_total, p_log, sweepVars>>

NextResolve ==
    \/ ResolveTeamWinner
    \/ ResolveRepresentatives
    \/ ResolveIndividualWinner

SpecResolve == InitResolve /\ [][NextResolve]_vars

----------------------------------------------------------------------------
(* run_optimization_sweep: run_parameter_test for every valid combination, *)
(* each running num_runs competitions, then save_sweep_results             *)

InitSweep ==
    /\ num_runs \in 1..MaxRuns
    /\ combo = 0
    /\ params = [X |-> 0, Y |-> 0, Z |-> 0, C |-> 0]
    /\ i_run = 0
    /\ agg = EmptyAggregator
    /\ all_test_results = <<>>
    /\ final_leaderboard = None
    /\ competition_counter = 0
    /\ run_metrics = <<>>
    /\ run_trace = <<>>
    /\ prev_trace = <<>>
    /\ participants = <<>>
    /\ point_config = [X |-> 0, Y |-> 0, Z |-> 0, C |-> 0]
    /\ challenge_randomness = SweepRand
    /\ rep_selection_randomness = SweepRand
    /\ stage_number = 0
    /\ pc = "sweep_loop"
    /\ teams = <<>>
    /\ winning_team_1 = 0
    /\ winning_team_2 = 0
    /\ all_reps = <<>>
    /\ winner_rep = 0
    /\ stage_5_leaderboard = None
    /\ report = None
    /\ before = <<>>
    /\ stages_run = <<>>
    /\ p_total = 0
    /\ p_log = <<>>

\* run_optimization_sweep, lines 233-253: the loops move to the next
\* combination; it is skipped (`continue`) or run_parameter_test is entered
\* (lines 72-82)
SweepIterate ==
    /\ pc = "sweep_loop"
    /\ combo < NumCombinations
    /\ IF ValidCombination(Combination(combo))
       THEN /\ params' = [X |-> Combination(combo).X, Y |-> Combination(combo).Y,
                          Z |-> Combination(combo).Z, C |-> Combination(combo).C]
            /\ agg' = EmptyAggregator
            /\ i_run' = 0
            /\ run_metrics' = <<>>
            /\ run_trace' = <<>>
            /\ prev_trace' = <<>>
            /\ pc' = "run_loop"
            /\ combo' = combo
       ELSE /\ combo' = combo + 1
            /\ pc' = pc
            /\ UNCHANGED <<params, agg, i_run, run_metrics, run_trace,
                           prev_trace>>
    /\ UNCHANGED <<compVars_but_pc, addVars, num_runs, all_test_results,
                   final_leaderboard, competition_counter>>

\* run_parameter_test, lines 84-92, with Competition.__init__: a new
\* competition on a fresh roster
StartCompetition ==
    /\ pc = "run_loop"
    /\ i_run < num_runs
    /\ i_run' = i_run + 1
    /\ participants' = generate_fresh_participants(Len(PARTICIPANT_DATA))
    /\ competition_counter' = competition_counter + 1
    /\ point_config' = params
    /\ stage_5_leaderboard' = None
    /\ report' = None
    /\ stage_number' = 1
    /\ pc' = "teams"
    /\ teams' = <<>>
    /\ winning_team_1' = 0
    /\ winning_team_2' = 0
    /\ all_reps' = <<>>
    /\ winner_rep' = 0
    /\ before' = participants
    /\ stages_run' = <<>>
    /\ prev_trace' = run_trace
    /\ run_trace' = <<>>
    /\ UNCHANGED <<challenge_randomness, rep_selection_randomness, addVars,
                   num_runs, combo, params, agg, all_test_results,
                   final_leaderboard, run_metrics>>

\* run_parameter_test, lines 96-106: the finished competition is evaluated
\* and added to the totals
AggregateRun ==
    /\ pc = "done"
    /\ num_runs > 0
    /\ agg' = Aggregate(agg, participants, stage_5_leaderboard,
                        max_stage_points)
    /\ run_metrics' =
          Append(run_metrics,
                 [report |-> Val(report),
                  points |-> [i \in DOMAIN participants |->
                                 participants[i].total_points]])
    /\ pc' = "run_loop"
    /\ UNCHANGED <<compVars_but_pc, addVars, num_runs, combo, params, i_run,
                   all_test_results, final_leaderboard, competition_counter,
                   run_trace, prev_trace>>

\* run_parameter_test, lines 108-147, and run_optimization_sweep, line 255:
\* the record of the combination is built and appended
FinishParameterTest ==
    /\ pc = "run_loop"
    /\ ~(i_run < num_runs)
    /\ all_test_results' =
          Append(all_test_results, ParameterTestResult(params, agg, num_runs))
    /\ combo' = combo + 1
    /\ pc' = "sweep_loop"
    /\ UNCHANGED <<compVars_but_pc, addVars, num_runs, params, i_run, agg,
                   final_leaderboard, competition_counter, run_metrics,
                   run_trace, prev_trace>>

\* run_optimization_sweep, line 258: save_sweep_results(all_test_results)
SaveSweepResults ==
    /\ pc = "sweep_loop"
    /\ ~(combo < NumCombinations)
    /\ final_leaderboard' = Some(save_sweep_results(all_test_results))
    /\ pc' = "sweep_done"
    /\ UNCHANGED <<compVars_but_pc, addVars, num_runs, combo, params, i_run,
                   agg, all_test_results, competition_counter, run_metrics,
                   run_trace, prev_trace>>

NextSweep ==
    \/ SweepIterate
    \/ StartCompetition
    \/ DetermineTeams
    \/ RunChallenge1
    \/ RunChallenge2
    \/ RunChallenge3
    \/ EndStage
    \/ GenerateFinalReport
    \/ AggregateRun
    \/ FinishParameterTest
    \/ SaveSweepResults

SpecSweep == InitSweep /\ [][NextSweep]_vars

----------------------------------------------------------------------------
(* Properties *)

Max(a, b) == IF a >= b THEN a ELSE b

Roster == DOMAIN participants

InStage == pc \in {"ch1", "ch2", "ch3", "board"}

\* C1: in every reachable state of a Competition run every participant's
\* total_points is >= 0.
C1_PointsNonNegative ==
    \A i \in Roster : participants[i].total_points >= 0

\* a losing representative who held less than C points was floored at 0
C1_Witness ==
    /\ pc = "board"
    /\ \E i \in Roster :
          /\ InSeq(i, all_reps)
          /\ i # winner_rep
          /\ before[i].total_points - point_config.C < 0
          /\ participants[i].total_points = 0

\* the fold of per-step clamps over a sequence of adjustments, from 0
RECURSIVE ClampFold(_)
ClampFold(log) ==
    IF log = <<>> THEN 0
    ELSE Max(0, ClampFold(SubSeq(log, 1, Len(log) - 1)) + log[Len(log)])

\* C2: after add_points(d) the total is max(0, old total + d), so after a
\* sequence of adjustments the total is the fold of the per-step clamps.
C2_StepwiseClamp == p_total = ClampFold(p_log)

\* from 0, -1 and then +2 gives 2, where clamping the sum would give 1
C2_Witness ==
    /\ p_log = <<0 - 1, 2>>
    /\ p_total = 2
    /\ Max(0, SumSeq(p_log)) = 1

\* C3: run_simulation runs simulate_stage for the stages 1, 2, 3, 4, 5, 6 in
\* that order, each once, the report is made only after stage 6, and the
\* run then stops.
C3_StagesInOrder ==
    /\ Len(stages_run) <= 6
    /\ \A k \in DOMAIN stages_run : stages_run[k] = k
    /\ InStage => stage_number = Len(stages_run)
    /\ pc = "teams" => stage_number = Len(stages_run) + 1
    /\ pc \in {"report", "done"} => stages_run = <<1, 2, 3, 4, 5, 6>>
    /\ report # None <=> pc = "done"
    /\ pc = "done" => ~ENABLED Next

C3_Witness ==
    /\ pc = "done"
    /\ report # None
    /\ stages_run = <<1, 2, 3, 4, 5, 6>>

\* C4: when the stage-5 snapshot is taken (at the end of stage 5) it holds,
\* for every participant id, the total_points of that participant at that
\* moment, and no later step changes the snapshot.
C4_SnapshotFrozen ==
    [][ /\ (stage_5_leaderboard = None /\ stage_5_leaderboard' # None) =>
            LET snap == Val(stage_5_leaderboard')
            IN  /\ stage_number = 5
                /\ pc = "board"
                /\ Len(snap) = Len(participants)
                /\ \A i \in Roster :
                      /\ Cardinality({k \in DOMAIN snap :
                                        snap[k].id = participants[i].id}) = 1
                      /\ Stage5Score(snap, participants[i].id)
                            = participants[i].total_points
        /\ stage_5_leaderboard # None =>
              stage_5_leaderboard' = stage_5_leaderboard ]_vars

\* stage 6 has changed a live score and the snapshot entry differs from it
C4_Witness ==
    /\ stage_5_leaderboard # None
    /\ stage_number = 6
    /\ pc = "board"
    /\ \E i \in Roster :
          /\ participants[i].total_points # before[i].total_points
          /\ Stage5Score(Val(stage_5_leaderboard), participants[i].id)
                # participants[i].total_points

\* the 6th-highest total_points of a stage-5 list
SixthHighest(leaderboard) ==
    leaderboard[get_final_leaderboard(leaderboard)[6]].total_points

\* C5: evaluate_final_contenders takes the 6th-highest stage-5 score as its
\* target and returns the number of participants whose stage-5 score plus
\* Y+Z+C is at least that target.
C5_TargetIsSixthHighest ==
    (report # None /\ Len(participants) >= 6) =>
        LET snap == Val(stage_5_leaderboard)
        IN  Val(report).contender_count =
                Cardinality({i \in Roster :
                    Stage5Score(snap, participants[i].id) + max_stage_points
                        >= SixthHighest(snap)})

\* C6: a participant whose stage-5 score plus Y+Z+C equals the stage-5
\* rank-6 score is counted as a contender, and one whose sum is strictly
\* less is not.
C6_InclusiveBoundary ==
    (stage_5_leaderboard # None /\ Len(participants) >= 6) =>
        LET snap == Val(stage_5_leaderboard)
            counted == Contenders(snap, participants, max_stage_points)
            reach(i) == Stage5Score(snap, participants[i].id)
                            + max_stage_points
        IN  \A i \in Roster :
               /\ reach(i) = SixthHighest(snap) => i \in counted
               /\ reach(i) < SixthHighest(snap) => i \notin counted

\* the team (index) that holds participant i
TeamOf(i) == CHOOSE t \in DOMAIN teams : InSeq(i, teams[t])

\* C7: run_challenge_3 picks one representative per team; the winning
\* representative's team gains Z each, the winning representative gains C
\* more, every other representative gets -C floored at 0, and nobody
\* else's total_points changes.
C7_Challenge3Points ==
    [][ (pc = "ch3" /\ pc' = "board") =>
          LET reps == all_reps'
              w == winner_rep'
              Z == point_config.Z
              C == point_config.C
              old(i) == participants[i].total_points
              new(i) == participants'[i].total_points
          IN  /\ Len(reps) = 3
              /\ \A t \in 1..3 : InSeq(reps[t], teams[t])
              /\ InSeq(w, reps)
              /\ DOMAIN participants' = Roster
              /\ \A i \in Roster :
                    IF i = w THEN new(i) = old(i) + Z + C
                    ELSE IF TeamOf(i) = TeamOf(w) THEN new(i) = old(i) + Z
                    ELSE IF InSeq(i, reps) THEN new(i) = Max(0, old(i) - C)
                    ELSE new(i) = old(i) ]_vars

\* challenge 3 has run on teams of two or more: the winner holds Z + C more,
\* a losing representative holds less than before, and a member of a losing
\* team who was not a representative holds what it held
C7_Witness ==
    /\ pc = "board"
    /\ winner_rep # 0
    /\ participants[winner_rep].total_points =
          before[winner_rep].total_points + point_config.Z + point_config.C
    /\ \E i \in Roster :
          /\ InSeq(i, all_reps) /\ i # winner_rep
          /\ before[i].total_points > 0
          /\ participants[i].total_points < before[i].total_points
    /\ \E i \in Roster :
          /\ ~InSeq(i, all_reps)
          /\ TeamOf(i) # TeamOf(winner_rep)
          /\ before[i].total_points > 0
          /\ participants[i].total_points = before[i].total_points

\* C8: run_challenge_1 (run_challenge_2) adds X (Y) to every member of the
\* winning team, one of the three teams, and leaves everybody else's
\* total_points unchanged.
C8_TeamChallengePoints ==
    [][ /\ (pc = "ch1" /\ pc' = "ch2") =>
              /\ winning_team_1' \in 1..3
              /\ DOMAIN participants' = Roster
              /\ \A i \in Roster :
                    participants'[i].total_points =
                        IF TeamOf(i) = winning_team_1'
                        THEN participants[i].total_points + point_config.X
                        ELSE participants[i].total_points
        /\ (pc = "ch2" /\ pc' = "ch3") =>
              /\ winning_team_2' \in 1..3
              /\ DOMAIN participants' = Roster
              /\ \A i \in Roster :
                    participants'[i].total_points =
                        IF TeamOf(i) = winning_team_2'
                        THEN participants[i].total_points + point_config.Y
                        ELSE participants[i].total_points ]_vars

\* challenge 2 has run after challenge 1 and another team has won it
C8_Witness ==
    /\ pc = "ch3"
    /\ winning_team_1 \in 1..3
    /\ winning_team_2 \in 1..3
    /\ winning_team_1 # winning_team_2
    /\ \A i \in Roster :
          participants[i].total_points =
              IF TeamOf(i) = winning_team_2
              THEN before[i].total_points + point_config.Y
              ELSE before[i].total_points

\* C9: determine_teams returns 3 teams of size k for a roster of size 3k,
\* and every participant is in exactly one team, at every stage.
C9_TeamsPartition ==
    InStage =>
        /\ Len(teams) = 3
        /\ \A t \in 1..3 : Len(teams[t]) * 3 = Len(participants)
        /\ \A i \in Roster :
              Cardinality({tk \in {<<t, k>> : t \in 1..3,
                                             k \in 1..Len(participants)} :
                              /\ tk[2] <= Len(teams[tk[1]])
                              /\ teams[tk[1]][tk[2]] = i}) = 1

\* teams of 4 drafted from the 12-roster at a late stage with tied scores
C9_Witness ==
    /\ pc = "ch1"
    /\ stage_number = 6
    /\ Len(participants) = 12
    /\ \A t \in 1..3 : Len(teams[t]) = 4
    /\ \E i, j \in Roster :
          i # j /\ participants[i].total_points = participants[j].total_points

\* the mirrored-row rule, as the claim states it
SnakeTeam(i) == IF (i \div 3) % 2 = 0 THEN i % 3 ELSE 2 - (i % 3)

\* C10: the participant at ranked position i (0-indexed) is put in team
\* i mod 3 when the row i div 3 is even and in team 2 - (i mod 3) when it is
\* odd; six competitors A>B>C>D>E>F give the teams {A,F}, {B,E}, {C,D}.
C10_SnakeDraft ==
    pc = "ch1" =>
        LET ranking == IF stage_number = 1
                       THEN get_initial_leaderboard(participants)
                       ELSE get_final_leaderboard(participants)
        IN  /\ \A i \in 0..(Len(participants) - 1) :
                  InSeq(ranking[i + 1], teams[SnakeTeam(i) + 1])
            /\ (stage_number = 1 /\ Len(participants) = 6) =>
                  teams = << <<1, 6>>, <<2, 5>>, <<3, 4>> >>

C10_Witness ==
    /\ pc = "ch1"
    /\ stage_number = 1
    /\ Len(participants) = 6
    /\ teams = << <<1, 6>>, <<2, 5>>, <<3, 4>> >>

\* C11: the teams of stage 1 are drafted from the roster ranked by
\* initial_skill and the teams of each later stage from the roster ranked by
\* the total_points held when the stage starts, and they are drafted anew at
\* the start of every stage.
C11_TeamsFromCurrentStandings ==
    [][ (pc = "teams" /\ pc' = "ch1") =>
          LET key(i) == IF stage_number = 1
                        THEN participants[i].initial_skill
                        ELSE participants[i].total_points
              keys == [i \in Roster |-> key(i)]
          IN  /\ teams = <<>>
              /\ participants' = participants
              /\ \A i \in Roster :
                    InSeq(i, teams'[SnakeTeam(SortedPos(keys, i)) + 1])
              /\ \A t \in 1..3 : \A j, k \in DOMAIN teams'[t] :
                    j < k => key(teams'[t][j]) >= key(teams'[t][k]) ]_vars

\* the teams of a later stage differ from the draft by initial skill
C11_Witness ==
    /\ pc = "ch1"
    /\ stage_number >= 2
    /\ teams # determine_teams(participants, 1)
    /\ teams = determine_teams(participants, stage_number)

\* the k-th highest total_points of the roster (k = 1 is the highest)
KthHighestPoints(parts, k) ==
    CHOOSE v \in {parts[i].total_points : i \in DOMAIN parts} :
        /\ Cardinality({i \in DOMAIN parts : parts[i].total_points > v}) < k
        /\ Cardinality({i \in DOMAIN parts : parts[i].total_points >= v}) >= k

\* C13: evaluate_cut_off_collision returns 0 for a roster of fewer than 7,
\* 0 when the 6th-ranked score is strictly above the 7th-ranked score, and
\* the number of participants holding the 6th-ranked score when the two are
\* equal.
C13_CollisionSize ==
    LET n == Len(participants)
        r == evaluate_cut_off_collision(participants)
    IN  /\ n < 7 => r = 0
        /\ n >= 7 =>
              LET s6 == KthHighestPoints(participants, 6)
                  s7 == KthHighestPoints(participants, 7)
              IN  /\ s6 = s7 =>
                        r = Cardinality({i \in Roster :
                                participants[i].total_points = s6})
                  /\ s6 > s7 => r = 0
        /\ report # None => Val(report).collision_size = r

\* a finished run of the 12-roster with three or more participants tied
\* across the cut-off
C13_Witness ==
    /\ pc = "done"
    /\ Len(participants) = 12
    /\ report # None
    /\ Val(report).collision_size >= 3
    /\ KthHighestPoints(participants, 6) = KthHighestPoints(participants, 7)

\* C20: evaluate_final_contenders returns 0 whenever the stage-5 snapshot does
\* not exist or holds fewer than 6 entries.
C20_ContendersGuard ==
    LET r == evaluate_final_contenders(stage_5_leaderboard, participants,
                                       max_stage_points)
    IN  /\ stage_5_leaderboard = None => r = 0
        /\ (stage_5_leaderboard # None
              /\ Len(Val(stage_5_leaderboard)) < 6) => r = 0
        /\ (report # None /\ Len(participants) < 6) =>
              Val(report).contender_count = 0

\* a finished run of the 3-roster: the snapshot exists, has 3 entries, and
\* the report holds 0 contenders
C20_Witness ==
    /\ pc = "done"
    /\ stage_5_leaderboard # None
    /\ Len(Val(stage_5_leaderboard)) = 3
    /\ report # None
    /\ Val(report).contender_count = 0

\* the place (0-based, from the top) of every participant in the stable
\* descending ranking by keys
PlaceBy(keys) == [i \in DOMAIN keys |-> SortedPos(keys, i)]

\* what C19 says evaluate_stability(top_N, target_M) returns, given the place
\* of every participant by initial skill and by total points
StabilityAsClaimed(bySkill, byPoints, top_N, target_M) ==
    LET n == Len(bySkill)
    IN  Cardinality({i \in DOMAIN bySkill :
                        bySkill[i] < top_N /\ byPoints[i] < target_M})
          + Cardinality({i \in DOMAIN bySkill :
                        bySkill[i] >= n - top_N /\ byPoints[i] >= n - target_M})

SkillPlaces == PlaceBy([i \in Roster |-> participants[i].initial_skill])

PointPlaces == PlaceBy([i \in Roster |-> participants[i].total_points])

\* the pair r returned for top_N and target_M agrees with the claim
StabilityAgrees(r, bySkill, byPoints, top_N, target_M) ==
    /\ r.successful_players =
          StabilityAsClaimed(bySkill, byPoints, top_N, target_M)
    /\ r.stability_score.num = r.successful_players
    /\ r.stability_score.den = 2 * top_N
    /\ 0 <= r.successful_players
    /\ r.successful_players <= 2 * top_N

\* a band size for which the slice board[n - m:] holds the last m entries
\* (or all of them): m at most the roster size, or at least twice it
NoWrap(m) == m <= Len(participants) \/ m >= 2 * Len(participants)

\* C19 as stated: for every top_N >= 1 and every target_M, after a finished
\* run evaluate_stability returns the number of the top top_N by skill that
\* are in the top target_M by points plus the number of the bottom top_N by
\* skill that are in the bottom target_M by points, and that number over
\* 2 * top_N.
C19_StabilityAnyBand ==
    pc = "done" =>
        LET ib == get_initial_leaderboard(participants)
            fb == get_final_leaderboard(participants)
            bs == SkillPlaces
            bp == PointPlaces
        IN  \A top_N \in 1..MaxTopN : \A target_M \in 0..MaxTargetM :
               StabilityAgrees(StabilityOf(ib, fb, top_N, target_M),
                               bs, bp, top_N, target_M)

\* C19 as amended: the same, for top_N and target_M that are each at most
\* the roster size or at least twice the roster size (as in the report's own
\* call with top_N = 3 and target_M = 6).
C19_StabilityNoWrap ==
    pc = "done" =>
        LET ib == get_initial_leaderboard(participants)
            fb == get_final_leaderboard(participants)
            bs == SkillPlaces
            bp == PointPlaces
        IN  /\ \A top_N \in 1..MaxTopN : \A target_M \in 0..MaxTargetM :
                  (NoWrap(top_N) /\ NoWrap(target_M)) =>
                      StabilityAgrees(StabilityOf(ib, fb, top_N, target_M),
                                      bs, bp, top_N, target_M)
            /\ StabilityAgrees(evaluate_stability(participants, 3, 6),
                               bs, bp, 3, 6)
            /\ Val(report).successful_players =
                  StabilityAsClaimed(bs, bp, 3, 6)
            /\ Val(report).stability_score =
                  [num |-> Val(report).successful_players, den |-> 6]

\* a finished run of the 12-roster in which some but not all of the six
\* extreme participants kept their band
C19_Witness ==
    /\ pc = "done"
    /\ Len(participants) = 12
    /\ report # None
    /\ Val(report).successful_players = 4
    /\ StabilityAsClaimed(SkillPlaces, PointPlaces, 3, 6) = 4

\* the values of s are pairwise different
Distinct(s) == \A j, k \in DOMAIN s : j # k => s[j] # s[k]

SkillOf(i) == participants[i].initial_skill

\* member m of the list of references s has strictly the highest skill of s
StrictlyBest(m, s) ==
    /\ InSeq(m, s)
    /\ \A k \in DOMAIN s : s[k] # m => SkillOf(s[k]) < SkillOf(m)

\* C12: with randomness weight 0 and distinct skills (skill sums), whatever
\* the draws, determine_team_winner returns the team with the strictly
\* highest skill sum, and select_team_representative and
\* determine_individual_winner return the participant with the strictly
\* highest skill.
C12_ResolverIgnoresDraws ==
    LET sums == [t \in DOMAIN teams |-> TeamSkillSum(participants, teams[t])]
    IN  /\ (pc \in {"team", "reps", "resolved"}
               /\ challenge_randomness.num = 0 /\ Distinct(sums)) =>
              /\ winning_team_1 \in DOMAIN teams
              /\ \A t \in DOMAIN teams :
                    t # winning_team_1 => sums[t] < sums[winning_team_1]
        /\ (pc \in {"reps", "resolved"} /\ rep_selection_randomness.num = 0) =>
              \A t \in DOMAIN teams :
                 Distinct([k \in DOMAIN teams[t] |-> SkillOf(teams[t][k])]) =>
                    StrictlyBest(all_reps[t], teams[t])
        /\ (pc = "resolved" /\ challenge_randomness.num = 0
               /\ Distinct([k \in DOMAIN all_reps |-> SkillOf(all_reps[k])])) =>
              StrictlyBest(winner_rep, all_reps)

\* all three resolvers have run at weight 0 on distinct skill sums and
\* distinct skills, and none of the winners is the first of its list
C12_Witness ==
    /\ pc = "resolved"
    /\ challenge_randomness.num = 0
    /\ rep_selection_randomness.num = 0
    /\ Distinct([t \in DOMAIN teams |-> TeamSkillSum(participants, teams[t])])
    /\ Distinct([k \in DOMAIN all_reps |-> SkillOf(all_reps[k])])
    /\ Distinct([k \in DOMAIN teams[3] |-> SkillOf(teams[3][k])])
    /\ winning_team_1 = 3
    /\ all_reps[3] = 6
    /\ winner_rep = 6

\* a sweep is running
InSweep == num_runs > 0

\* a competition of the sweep exists and has not been aggregated yet
InCompetition == pc \in {"teams", "ch1", "ch2", "ch3", "board", "report", "done"}

\* the combinations C14 names: inside the bounds with Z < X < Y
ClaimedValid(t) == t.Z < t.X /\ t.X < t.Y

ZeroRoster ==
    [i \in DOMAIN PARTICIPANT_DATA |->
        [id |-> i, initial_skill |-> PARTICIPANT_DATA[i], total_points |-> 0]]

ZeroDraws(n) == [k \in 1..n |-> 0]

\* the roster after one stage played with weights rc and rr, every draw 0
StageAlone(parts, stage, cfg, rc, rr) ==
    LET tms == determine_teams(parts, stage)
        w1 == determine_team_winner(parts, tms, rc, ZeroDraws(Len(tms)))
        p1 == run_challenge_1(parts, tms, w1, cfg.X)
        w2 == determine_team_winner(p1, tms, rc, ZeroDraws(Len(tms)))
        p2 == run_challenge_2(p1, tms, w2, cfg.Y)
        reps == [t \in DOMAIN tms |->
                    select_team_representative(p2, tms[t], rr,
                                               ZeroDraws(Len(tms[t])))]
        wrep == determine_individual_winner(p2, reps, rc, ZeroDraws(Len(reps)))
    IN  run_challenge_3(p2, tms, reps, wrep, cfg.Z, cfg.C)

\* the roster after the stages from `stage` to the last, played alone
RECURSIVE RunAlone(_, _, _, _, _)
RunAlone(parts, stage, cfg, rc, rr) ==
    IF stage > num_stages THEN parts
    ELSE RunAlone(StageAlone(parts, stage, cfg, rc, rr), stage + 1, cfg, rc, rr)

\* C15: every competition of a sweep starts stage 1 on the roster of 12 with
\* everybody at 0 points and with no stage-5 snapshot or report left from
\* an earlier competition, and ends with the scores the same competition
\* reaches when it is the only one ever run.
C15_FreshRosterEveryRun ==
    InSweep =>
        /\ (pc = "teams" /\ stage_number = 1) =>
              /\ Len(participants) = 12
              /\ participants = ZeroRoster
              /\ stage_5_leaderboard = None
              /\ report = None
              /\ point_config = params
        /\ pc = "done" =>
              participants = RunAlone(ZeroRoster, 1, params,
                                      challenge_randomness,
                                      rep_selection_randomness)

\* a competition is about to start on a zero-scored roster, right after a
\* competition of another combination ended with points on its roster
C15_Witness ==
    /\ InSweep
    /\ pc = "teams"
    /\ stage_number = 1
    /\ i_run = 1
    /\ Len(all_test_results) >= 1
    /\ Len(before) = 12
    /\ \E i \in DOMAIN before : before[i].total_points > 0
    /\ \A i \in DOMAIN participants : participants[i].total_points = 0

\* the sum over the runs of the current combination of what each reported
SumSuccessful ==
    SumSeq([k \in DOMAIN run_metrics |-> run_metrics[k].report.successful_players])

SumCollision ==
    SumSeq([k \in DOMAIN run_metrics |-> run_metrics[k].report.collision_size])

SumContenders ==
    SumSeq([k \in DOMAIN run_metrics |-> run_metrics[k].report.contender_count])

SumPoints(i) ==
    SumSeq([k \in DOMAIN run_metrics |-> run_metrics[k].points[i]])

\* the record appended last is the record of the runs in run_metrics
LastRecordIsCurrent ==
    /\ InSweep
    /\ pc \in {"sweep_loop", "sweep_done"}
    /\ all_test_results # <<>>

LastRecord == all_test_results[Len(all_test_results)]

\* C16: the record of a combination holds, for each metric, the sum over
\* that combination's num_runs runs divided by num_runs (with num_runs = 1
\* the single run's values), the same for every participant's avg_score,
\* and optimization_score = (successes - 4) + (3 - collision) + (contenders - 9).
C16_AveragesOfOwnRuns ==
    LastRecordIsCurrent =>
        LET r == LastRecord
            n == num_runs
        IN  /\ Len(run_metrics) = n
            /\ r.params = params
            /\ FracEq(r.avg_successful_players_count, [num |-> SumSuccessful, den |-> n])
            /\ FracEq(r.avg_cut_off_collision_size, [num |-> SumCollision, den |-> n])
            /\ FracEq(r.avg_contender_count, [num |-> SumContenders, den |-> n])
            /\ Len(r.average_leaderboard) = Len(PARTICIPANT_DATA)
            /\ \A i \in DOMAIN PARTICIPANT_DATA :
                  \E k \in DOMAIN r.average_leaderboard :
                     /\ r.average_leaderboard[k].name = i
                     /\ FracEq(r.average_leaderboard[k].avg_score,
                               [num |-> SumPoints(i), den |-> n])
            /\ n = 1 =>
                  /\ r.avg_successful_players_count =
                        Frac(run_metrics[1].report.successful_players)
                  /\ r.avg_cut_off_collision_size =
                        Frac(run_metrics[1].report.collision_size)
                  /\ r.avg_contender_count =
                        Frac(run_metrics[1].report.contender_count)
                  /\ \A k \in DOMAIN r.average_leaderboard :
                        r.average_leaderboard[k].avg_score =
                           Frac(run_metrics[1].points[r.average_leaderboard[k].name])
            /\ r.optimization_score.den > 0
            /\ FracEq(r.optimization_score,
                      [num |-> (SumSuccessful - 4 * n) + (3 * n - SumCollision)
                                  + (SumContenders - 9 * n),
                       den |-> n])

\* a sweep of one run per combination has appended a second record whose
\* metrics differ from those of the first
C16_Witness ==
    /\ LastRecordIsCurrent
    /\ num_runs = 1
    /\ Len(all_test_results) >= 2
    /\ LastRecord.avg_contender_count.num > 0
    /\ LastRecord.avg_successful_players_count.num > 0
    /\ LastRecord.avg_contender_count # all_test_results[1].avg_contender_count

\* s is a prefix of t
IsPrefix(s, t) ==
    /\ Len(s) <= Len(t)
    /\ \A k \in DOMAIN s : s[k] = t[k]

\* C17: with both randomness weights 0, every resolver call of a
\* competition has one outcome over all values of its draws, and a second
\* run of the same combination passes through the same teams, winners and
\* scores at every stage and ends with the same final leaderboard.
C17_DeterministicAtWeightZero ==
    (InSweep /\ challenge_randomness.num = 0
             /\ rep_selection_randomness.num = 0) =>
        /\ pc \in {"ch1", "ch2"} =>
              Cardinality(TeamWinners(participants, teams,
                                      challenge_randomness)) = 1
        /\ pc = "ch3" =>
              /\ \A t \in DOMAIN teams :
                    Cardinality(RepChoices(participants, teams[t],
                                           rep_selection_randomness)) = 1
              /\ \A r1 \in RepChoices(participants, teams[1], rep_selection_randomness),
                    r2 \in RepChoices(participants, teams[2], rep_selection_randomness),
                    r3 \in RepChoices(participants, teams[3], rep_selection_randomness) :
                    Cardinality(RepWinners(participants, <<r1, r2, r3>>,
                                           challenge_randomness)) = 1
        /\ i_run >= 2 => IsPrefix(run_trace, prev_trace)
        /\ (i_run >= 2 /\ pc = "done") =>
              /\ Len(run_trace) = num_stages
              /\ run_trace = prev_trace
              /\ participants = prev_trace[num_stages].participants
              /\ get_final_leaderboard(participants) =
                    get_final_leaderboard(prev_trace[num_stages].participants)

\* the second run of a combination has ended as the first did, with a final
\* leaderboard that is not the initial one
C17_Witness ==
    /\ InSweep
    /\ i_run = 2
    /\ pc = "done"
    /\ Len(prev_trace) = num_stages
    /\ run_trace = prev_trace
    /\ get_final_leaderboard(participants) # get_initial_leaderboard(participants)

\* C18: the leaderboard written at the end of the sweep holds every result
\* record exactly once, each row's optimization_score being at least the
\* next row's, and the row at position i (from 0) has rank i + 1.
C18_SweepLeaderboardSorted ==
    final_leaderboard # None =>
        LET rows == Val(final_leaderboard)
        IN  /\ Len(rows) = Len(all_test_results)
            /\ \A k \in DOMAIN all_test_results :
                  Cardinality({j \in DOMAIN rows :
                                  rows[j].result = all_test_results[k]}) = 1
            /\ \A j \in DOMAIN rows :
                  /\ rows[j].rank = j
                  /\ j < Len(rows) =>
                        ~FracLess(rows[j].result.optimization_score,
                                  rows[j + 1].result.optimization_score)

\* the leaderboard is written, its order is not the order of the sweep, and
\* its first row scores strictly more than its last
C18_Witness ==
    /\ final_leaderboard # None
    /\ Len(Val(final_leaderboard)) > 1
    /\ Val(final_leaderboard)[1].result # all_test_results[1]
    /\ FracLess(Val(final_leaderboard)[Len(Val(final_leaderboard))].result.optimization_score,
                Val(final_leaderboard)[1].result.optimization_score)

\* every participant's total_points when the stage in progress started: the
\* roster the previous stage of this run left, or the fresh roster
StageStartPoints ==
    [i \in Roster |->
        IF run_trace = <<>> THEN 0
        ELSE run_trace[Len(run_trace)].participants[i].total_points]

\* C21: when the three challenges of a stage have run, no participant has
\* gained more than max_stage_points = Y + Z + C since the stage started.
C21_StageGainAtMostCeiling ==
    (InSweep /\ pc = "board") =>
        \A i \in Roster :
           participants[i].total_points - StageStartPoints[i]
              <= max_stage_points

\* C22: within one competition stage_5_leaderboard is None in every state up
\* to and including the last challenge of stage 5 and present in every state
\* from stage 6's team formation on; the only step that changes it is the
\* end of stage 5, which takes it from None to a list, leads to stage 6's
\* team formation and awards no point.
C22_SnapshotSetOnceAfterStageFive ==
    /\ [](stage_5_leaderboard = None <=> stage_number <= 5)
    /\ [][ stage_5_leaderboard' # stage_5_leaderboard =>
             /\ stage_5_leaderboard = None
             /\ stage_number = 5 /\ pc = "board"
             /\ stage_number' = 6 /\ pc' = "teams"
             /\ participants' = participants ]_vars

\* stage 6's team formation is about to start: the snapshot is there and
\* holds exactly the points the roster has before any stage-6 award
C22_Witness ==
    /\ stage_number = 6 /\ pc = "teams"
    /\ stage_5_leaderboard # None
    /\ \E i \in Roster : participants[i].total_points > 0
    /\ \A i \in Roster :
          Val(stage_5_leaderboard)[i].total_points
             = participants[i].total_points

\* C23: the log_id of the record run_parameter_test has just appended is the
\* counter value that named the log file of the last competition run for
\* that combination.
C23_LogIdIsLastCompetition ==
    LastRecordIsCurrent => LastRecord.log_id = competition_counter

\* board lists every roster position once, with non-increasing key, and two
\* neighbours with the same key stand in roster order (ascending id)
StableDescending(board, parts, key(_)) ==
    /\ Len(board) = Len(parts)
    /\ {board[k] : k \in DOMAIN board} = DOMAIN parts
    /\ \A k \in 1..(Len(board) - 1) :
          \/ key(parts[board[k]]) > key(parts[board[k + 1]])
          \/ /\ key(parts[board[k]]) = key(parts[board[k + 1]])
             /\ board[k] < board[k + 1]
             /\ parts[board[k]].id < parts[board[k + 1]].id

\* the roster with each participant's points taken as their skill, a roster
\* on which get_initial_leaderboard meets equal keys
PointsAsSkill(parts) ==
    [i \in DOMAIN parts |-> Participant(parts[i].id, parts[i].total_points)]

\* the pick (0-based) of the snake draft that put participant i in its team
DraftPick(i) ==
    LET t == TeamOf(i)
        j == CHOOSE k \in DOMAIN teams[t] : teams[t][k] = i
    IN  3 * (j - 1) + (IF (j - 1) % 2 = 0 THEN t - 1 ELSE 3 - t)

\* C24: get_initial_leaderboard and get_final_leaderboard return a
\* permutation of the live roster with non-increasing initial_skill, resp.
\* total_points, in which participants with equal key keep their roster
\* order; the draft of every later stage, stage 2 included, picks tied
\* participants in roster order.
C24_LeaderboardsStable ==
    pc = "ch1" =>
        /\ StableDescending(get_initial_leaderboard(participants),
                            participants, LAMBDA p : p.initial_skill)
        /\ StableDescending(get_final_leaderboard(participants),
                            participants, LAMBDA p : p.total_points)
        /\ StableDescending(get_initial_leaderboard(PointsAsSkill(participants)),
                            PointsAsSkill(participants),
                            LAMBDA p : p.initial_skill)
        /\ stage_number >= 2 =>
              \A i, j \in Roster :
                 (i < j /\ participants[i].total_points
                             = participants[j].total_points)
                    => DraftPick(i) < DraftPick(j)

\* the stage-2 draft has been made from a roster in which a participant
\* ranks behind a higher id and several participants are tied
C24_Witness ==
    /\ pc = "ch1"
    /\ stage_number = 2
    /\ Len(participants) = 12
    /\ \E i, j \in Roster :
          /\ i < j
          /\ participants[i].total_points = participants[j].total_points
          /\ participants[i].total_points > 0
          /\ DraftPick(i) < DraftPick(j)
    /\ \E i, j \in Roster :
          i < j /\ participants[i].total_points < participants[j].total_points

\* C25: after a complete run on the 12-participant roster
\* evaluate_final_contenders returns at least 6, and every participant whose
\* stage-5 points are among the six highest is counted.
C25_AtLeastSixContenders ==
    (pc = "done" /\ Len(participants) = 12) =>
        LET snap == Val(stage_5_leaderboard)
        IN  /\ evaluate_final_contenders(stage_5_leaderboard, participants,
                                         max_stage_points) >= 6
            /\ Val(report).contender_count >= 6
            /\ \A i \in Roster :
                  snap[i].total_points >= SixthHighest(snap) =>
                     i \in Contenders(snap, participants, max_stage_points)

\* C26: generate_final_report and the evaluations run_parameter_test calls
\* after run_simulation leave the roster (its order and every total_points)
\* and the stage-5 snapshot as they were; the metrics evaluated on the
\* state the report leaves equal the reported ones, and so do the amounts
\* run_parameter_test adds to its totals.
C26_EvaluationsReadOnly ==
    [][ /\ (pc = "report" /\ pc' = "done") =>
             /\ participants' = participants
             /\ stage_5_leaderboard' = stage_5_leaderboard
             /\ report' # None
             /\ Val(report') = FinalMetrics(stage_5_leaderboard', participants',
                                            max_stage_points)
        /\ (pc = "done" /\ pc' = "run_loop") =>
             /\ participants' = participants
             /\ stage_5_leaderboard' = stage_5_leaderboard
             /\ report' = report
             /\ FracEq(SubFrac(agg'.total_stability_score,
                               agg.total_stability_score),
                       Val(report).stability_score)
             /\ agg'.total_successful_players - agg.total_successful_players
                   = Val(report).successful_players
             /\ agg'.total_collision_size - agg.total_collision_size
                   = Val(report).collision_size
             /\ agg'.total_contender_count - agg.total_contender_count
                   = Val(report).contender_count ]_vars

\* the second run of a combination has been aggregated: the totals have
\* grown by the reported metrics and the roster still holds its points
C26_Witness ==
    /\ InSweep
    /\ pc = "run_loop"
    /\ Len(run_metrics) = 2
    /\ report # None
    /\ stage_5_leaderboard # None
    /\ Val(report).contender_count > 0
    /\ Val(report).successful_players > 0
    /\ agg.total_contender_count
          = run_metrics[1].report.contender_count
               + Val(report).contender_count
    /\ \E i \in Roster : participants[i].total_points > 0

====
